---------------------------- MODULE Spec2Model ----------------------------
(***************************************************************************)
(* The todo-collection module (src/unnamed/part_000: the helper functions  *)
(* over an in-memory list plus the localStorage slot) and the TodoProvider *)
(* of src/src/App.jsx (React state, queued state updaters, mount and save  *)
(* effects).                                                               *)
(*                                                                         *)
(* A todo record is a function from field names to values.  A text is a    *)
(* sequence of one-character strings, so that String.prototype.trim and    *)
(* the " (Copy)" suffix are computed, not assumed.  A timestamp is the     *)
(* reading of a non-decreasing integer clock (new Date().toISOString()     *)
(* orders like the clock).  uuidv4() is a counter: every call yields an id *)
(* never produced before.                                                  *)
(***************************************************************************)
EXTENDS Integers, Sequences, FiniteSets, TLC

VARIABLES
    mode,       \* the client of this session: "helpers" calls the mutation
                \* helpers, "exchange" takes its list from the slot or from a
                \* file, "provider" is the TodoProvider
    todos,      \* the in-memory list (helpers: the caller's; provider: React state)
    storage,    \* the localStorage slot 'glassmorphic-todos'
    storageOk,  \* FALSE: localStorage.setItem throws (quota, unavailable)
    now,        \* the clock
    nextId,     \* the next id uuidv4() hands out
    last,       \* the last operation: its name, the error it threw, its writes
    queue,      \* provider: state updaters passed to setTodos, not yet applied
    isLoading,  \* provider: the isLoading state
    effects,    \* provider: effects scheduled by the last render, in order
    mounted,    \* provider: the first render has happened
    unsaved     \* provider: the handlers' updaters applied to todos since the
                \* save effect last ran: how many, and the list before the
                \* latest of them

vars == <<mode, todos, storage, storageOk, now, nextId, last,
          queue, isLoading, effects, mounted, unsaved>>

---------------------------------------------------------------------------
\* Bounds of the model.

\* The clock runs from 0 to MaxClock.
MaxClock == 1
\* The in-memory list holds at most MaxLen records.
MaxLen == 2
\* uuidv4() hands out the ids 1..MaxIds.
MaxIds == 2
\* The provider holds at most MaxQueue updaters between two renders.
MaxQueue == 2

---------------------------------------------------------------------------
\* Values.

\* dueDate: null
NoDate == -1

\* { ...a, ...b }: b's fields over a's.
Spread(a, b) ==
    [f \in (DOMAIN a) \cup (DOMAIN b) |-> IF f \in DOMAIN b THEN b[f] ELSE a[f]]

IsSpace(c) == c = " "

RECURSIVE trimStart(_)
trimStart(s) ==
    IF s = <<>> THEN s
    ELSE IF IsSpace(Head(s)) THEN trimStart(Tail(s)) ELSE s

RECURSIVE trimEnd(_)
trimEnd(s) ==
    IF s = <<>> THEN s
    ELSE IF IsSpace(s[Len(s)]) THEN trimEnd(SubSeq(s, 1, Len(s) - 1)) ELSE s

\* String.prototype.trim
trim(s) == trimEnd(trimStart(s))

\* !text for a string: the empty string is falsy.
Falsy(s) == s = <<>>

Ids(list) == {list[i].id : i \in DOMAIN list}

DistinctIds(list) ==
    \A i, j \in DOMAIN list : list[i].id = list[j].id => i = j

\* Array.prototype.filter
RECURSIVE SelectIdx(_, _, _)
SelectIdx(list, keep, i) ==
    IF i > Len(list) THEN <<>>
    ELSE (IF i \in keep THEN <<list[i]>> ELSE <<>>) \o SelectIdx(list, keep, i + 1)

Filter(list, keep) == SelectIdx(list, keep, 1)

---------------------------------------------------------------------------
\* src/unnamed/part_000: the helper module.

\* createTodo that stores the text as given.
createTodo_noTrim(text, category, priority, id, t1, t2) ==
    [id |-> id, text |-> text, completed |-> FALSE, category |-> category,
     priority |-> priority, createdAt |-> t1, updatedAt |-> t2,
     dueDate |-> NoDate, tags |-> <<>>, description |-> <<>>]

\* id is the value of the uuidv4() call, t1 and t2 the two clock readings.
createTodo(text, category, priority, id, t1, t2) ==
    [id |-> id, text |-> trim(text), completed |-> FALSE, category |-> category,
     priority |-> priority, createdAt |-> t1, updatedAt |-> t2,
     dueDate |-> NoDate, tags |-> <<>>, description |-> <<>>]

\* What the slot holds after localStorage.setItem(KEY, JSON.stringify(list)).
Stringified(list) == [kind |-> "array", val |-> list]

\* saveTodos whose write cannot fail.
saveTodos_neverFails(list, slot, ok) == [slot |-> Stringified(list), ret |-> TRUE]

\* saveTodos: the slot afterwards and the value returned.
saveTodos(list, slot, ok) ==
    IF ok THEN [slot |-> Stringified(list), ret |-> TRUE]
    ELSE [slot |-> slot, ret |-> FALSE]

\* The slot after the saveTodos calls of one operation, in order.
RECURSIVE Persist(_, _, _)
Persist(saved, slot, ok) ==
    IF saved = <<>> THEN slot
    ELSE Persist(Tail(saved), saveTodos(Head(saved), slot, ok).slot, ok)

\* The outcome of a helper call: the error thrown ("" for none), the list
\* returned, and the lists handed to saveTodos, in call order.
Threw(msg) == [threw |-> msg, ret |-> <<>>, saved |-> <<>>]
Returned(list, saved) == [threw |-> "", ret |-> list, saved |-> saved]

\* addTodo that tests the text before trimming only.
addTodo_noTrimCheck(list, text, category, priority, id, t1, t2) ==
    IF Falsy(text) THEN Threw("Todo text cannot be empty")
    ELSE LET updatedTodos == <<createTodo(text, category, priority, id, t1, t2)>> \o list
         IN  Returned(updatedTodos, <<updatedTodos>>)

addTodo(list, text, category, priority, id, t1, t2) ==
    IF Falsy(text) \/ Falsy(trim(text)) THEN Threw("Todo text cannot be empty")
    ELSE LET newTodo == createTodo(text, category, priority, id, t1, t2)
             updatedTodos == <<newTodo>> \o list
         IN  Returned(updatedTodos, <<updatedTodos>>)

\* todos.find(todo => todo.id === id): the index of the first match, 0 for none.
FindIdx(list, id) ==
    IF \E i \in DOMAIN list : list[i].id = id
    THEN CHOOSE i \in DOMAIN list :
             /\ list[i].id = id
             /\ \A j \in DOMAIN list : list[j].id = id => i <= j
    ELSE 0

\* One element of updateTodo's map: t is the clock reading.
updateOne(todo, updates, t) ==
    Spread(Spread(todo, updates),
           [updatedAt |-> t,
            text |-> IF "text" \in DOMAIN updates /\ ~Falsy(updates.text)
                     THEN trim(updates.text)
                     ELSE todo.text])

\* updateTodo with the merge applied to every record, matched or not.
updateTodo_restampsAll(list, id, updates, t) ==
    LET updatedTodos ==
            [i \in DOMAIN list |->
                IF list[i].id = id THEN updateOne(list[i], updates, t)
                ELSE Spread(list[i], [updatedAt |-> t])]
    IN  Returned(updatedTodos, <<updatedTodos>>)

updateTodo(list, id, updates, t) ==
    LET updatedTodos ==
            [i \in DOMAIN list |->
                IF list[i].id = id THEN updateOne(list[i], updates, t) ELSE list[i]]
    IN  Returned(updatedTodos, <<updatedTodos>>)

\* toggleTodo that completes every record when it finds none with the id.
toggleTodo_flipsUnmatched(list, id, t) ==
    LET k == FindIdx(list, id) IN
    IF k = 0
    THEN LET updatedTodos == [i \in DOMAIN list |-> Spread(list[i], [completed |-> TRUE])]
         IN  Returned(updatedTodos, <<updatedTodos>>)
    ELSE updateTodo(list, id, [completed |-> ~list[k].completed], t)

\* toggleTodo that sets completed without reading the record's value.
toggleTodo_alwaysCompletes(list, id, t) ==
    updateTodo(list, id, [completed |-> TRUE], t)

\* !todos.find(...)?.completed: of a missing record, !undefined = true.
toggleTodo(list, id, t) ==
    LET k == FindIdx(list, id)
        completed == IF k = 0 THEN TRUE ELSE ~list[k].completed
    IN  updateTodo(list, id, [completed |-> completed], t)

deleteTodo(list, id) ==
    LET updatedTodos == Filter(list, {i \in DOMAIN list : list[i].id # id})
    IN  Returned(updatedTodos, <<updatedTodos>>)

\* deleteTodos that keeps the listed records instead of the others.
deleteTodos_keepsListed(list, ids) ==
    LET updatedTodos == Filter(list, {i \in DOMAIN list : list[i].id \in ids})
    IN  Returned(updatedTodos, <<updatedTodos>>)

deleteTodos(list, ids) ==
    LET updatedTodos == Filter(list, {i \in DOMAIN list : list[i].id \notin ids})
    IN  Returned(updatedTodos, <<updatedTodos>>)

clearCompleted(list) ==
    LET updatedTodos == Filter(list, {i \in DOMAIN list : ~list[i].completed})
    IN  Returned(updatedTodos, <<updatedTodos>>)

toggleAllTodos(list, completed, t) ==
    LET updatedTodos ==
            [i \in DOMAIN list |->
                Spread(list[i], [completed |-> completed, updatedAt |-> t])]
    IN  Returned(updatedTodos, <<updatedTodos>>)

\* The text appended by `${text} (Copy)`.
CopySuffix == <<" ", "(", "C", "o", "p", "y", ")">>

\* duplicateTodo that returns the list as it is when no record has the id.
duplicateTodo_silent(list, id, newId, t1, t2) ==
    LET k == FindIdx(list, id) IN
    IF k = 0 THEN Returned(list, <<list>>)
    ELSE LET duplicatedTodo ==
                 Spread(list[k],
                        [id |-> newId, text |-> list[k].text \o CopySuffix,
                         completed |-> FALSE, createdAt |-> t1, updatedAt |-> t2])
             updatedTodos == <<duplicatedTodo>> \o list
         IN  Returned(updatedTodos, <<updatedTodos>>)

duplicateTodo(list, id, newId, t1, t2) ==
    LET k == FindIdx(list, id) IN
    IF k = 0 THEN Threw("Todo not found")
    ELSE LET duplicatedTodo ==
                 Spread(list[k],
                        [id |-> newId, text |-> list[k].text \o CopySuffix,
                         completed |-> FALSE, createdAt |-> t1, updatedAt |-> t2])
             updatedTodos == <<duplicatedTodo>> \o list
         IN  Returned(updatedTodos, <<updatedTodos>>)

batchUpdateTodos(list, ids, updates, t) ==
    LET updatedTodos ==
            [i \in DOMAIN list |->
                IF list[i].id \in ids
                THEN Spread(Spread(list[i], updates), [updatedAt |-> t])
                ELSE list[i]]
    IN  Returned(updatedTodos, <<updatedTodos>>)

\* A JSON array element that is null.
NullEntry == [null |-> TRUE]

IsNullEntry(e) == "null" \in DOMAIN e

\* A JSON array element that is a number.
NumberEntry == [number |-> TRUE]

IsNumberEntry(e) == "number" \in DOMAIN e

\* An object whose text is a number: { id, text: 5 }.
NumberTextEntry == [id |-> MaxIds + 1, textNumber |-> TRUE]

IsNumberText(e) == "textNumber" \in DOMAIN e

\* The fields { ...todo } copies and todo.f reads: none of a number.
Own(e) == IF IsNumberEntry(e) THEN <<>> ELSE e

\* todo.f || fallback for a date field: absent (undefined) and null are falsy.
DateOr(todo, f, fallback) ==
    IF f \in DOMAIN todo /\ todo[f] # NoDate THEN todo[f] ELSE fallback

\* The number of entries before position i that carry no id.
RECURSIVE IdLessBefore(_, _)
IdLessBefore(entries, i) ==
    IF i <= 1 THEN 0
    ELSE IdLessBefore(entries, i - 1)
         + (IF "id" \in DOMAIN entries[i - 1] THEN 0 ELSE 1)

\* loadTodos that merges the defaults over the stored record.
loadTodos_defaultsWin(slot, freshId, t) ==
    IF slot.kind # "array" THEN <<>>
    ELSE IF \E i \in DOMAIN slot.val : IsNullEntry(slot.val[i]) THEN <<>>
    ELSE [i \in DOMAIN slot.val |->
            LET todo == Own(slot.val[i]) IN
            Spread(Spread(todo,
                          createTodo(<<>>, "general", "medium",
                                     freshId + IdLessBefore(slot.val, i), t, t)),
                   [createdAt |-> DateOr(todo, "createdAt", t),
                    updatedAt |-> DateOr(todo, "updatedAt", t)])]

\* loadTodos: slot is what getItem finds, freshId the first unused uuid.
\* Every failure inside the try block ends in the catch: [] is returned.
loadTodos(slot, freshId, t) ==
    IF slot.kind # "array" THEN <<>>
    ELSE IF \E i \in DOMAIN slot.val : IsNullEntry(slot.val[i]) THEN <<>>
    ELSE [i \in DOMAIN slot.val |->
            LET todo == Own(slot.val[i]) IN
            Spread(Spread(createTodo(<<>>, "general", "medium",
                                     freshId + IdLessBefore(slot.val, i), t, t),
                          todo),
                   [createdAt |-> DateOr(todo, "createdAt", t),
                    updatedAt |-> DateOr(todo, "updatedAt", t)])]

\* exportTodos: the content of the downloaded file, JSON.stringify(todos,
\* null, 2).  Every field of a record is a string, a boolean, null or an
\* array of strings, which JSON.parse gives back as written.
exportTodos(list) == [kind |-> "array", val |-> list]

\* The entries importTodos keeps: objects with a truthy text.
ImportValid(entries) ==
    Filter(entries, {i \in DOMAIN entries :
                        /\ ~IsNullEntry(entries[i])
                        /\ ~IsNumberEntry(entries[i])
                        /\ \/ IsNumberText(entries[i])
                           \/ /\ "text" \in DOMAIN entries[i]
                              /\ ~Falsy(entries[i].text)})

\* importTodos: file is the content the FileReader delivers.  The promise
\* rejects (threw) or resolves with validTodos (ret); nothing is saved.
importTodos(file, freshId, t) ==
    IF file.kind = "unreadable" THEN Threw("Error reading file")
    ELSE IF file.kind # "array" THEN Threw("Invalid JSON file or file format")
    \* createTodo(todo.text, ...): text.trim is not a function of a number;
    \* the catch turns the TypeError into the rejection.
    ELSE IF \E i \in DOMAIN file.val : IsNumberText(file.val[i])
    THEN Threw("Invalid JSON file or file format")
    ELSE LET valid == ImportValid(file.val)
             validTodos ==
                 [i \in DOMAIN valid |->
                    LET todo == valid[i]
                        uuid == freshId + IdLessBefore(valid, i)
                    IN  Spread(Spread(createTodo(
                                   todo.text,
                                   IF "category" \in DOMAIN todo
                                   THEN todo.category ELSE "general",
                                   IF "priority" \in DOMAIN todo
                                   THEN todo.priority ELSE "medium",
                                   uuid, t, t),
                               todo),
                               [id |-> IF "id" \in DOMAIN todo THEN todo.id ELSE uuid,
                                createdAt |-> DateOr(todo, "createdAt", t),
                                updatedAt |-> t])]
         IN  Returned(validTodos, <<>>)

\* The UTF-16 code unit of a character; 0 for one the model does not use.
CharCode(c) ==
    CASE c = " " -> 32 [] c = "(" -> 40 [] c = ")" -> 41
      [] c = "A" -> 65 [] c = "B" -> 66 [] c = "C" -> 67 [] c = "W" -> 87
      [] c = "a" -> 97 [] c = "b" -> 98 [] c = "c" -> 99 [] c = "d" -> 100
      [] c = "e" -> 101
      [] c = "g" -> 103 [] c = "k" -> 107 [] c = "l" -> 108 [] c = "n" -> 110
      [] c = "o" -> 111 [] c = "p" -> 112 [] c = "r" -> 114 [] c = "w" -> 119
      [] c = "x" -> 120 [] c = "y" -> 121
      [] OTHER -> 0

\* String.prototype.toLowerCase
toLowerCase(text) ==
    [k \in DOMAIN text |->
        CASE text[k] = "A" -> "a" [] text[k] = "B" -> "b"
          [] text[k] = "C" -> "c" [] text[k] = "W" -> "w"
          [] OTHER -> text[k]]

\* The characters of a category name.
Chars(name) ==
    CASE name = "general" -> <<"g", "e", "n", "e", "r", "a", "l">>
      [] name = "work" -> <<"w", "o", "r", "k">>
      [] name = "Work" -> <<"W", "o", "r", "k">>
      [] OTHER -> <<>>

\* String.prototype.includes
includes(s, term) ==
    \E off \in 0..(Len(s) - Len(term)) : SubSeq(s, off + 1, off + Len(term)) = term

filterTodos(list, filter) ==
    CASE filter = "active" -> Filter(list, {i \in DOMAIN list : ~list[i].completed})
      [] filter = "completed" -> Filter(list, {i \in DOMAIN list : list[i].completed})
      [] OTHER -> list

\* The term is lower-cased as given: it is trimmed only to see if it is blank.
searchTodos(list, searchTerm) ==
    IF Falsy(trim(searchTerm)) THEN list
    ELSE LET term == toLowerCase(searchTerm)
         IN  Filter(list, {i \in DOMAIN list :
                 \/ includes(toLowerCase(list[i].text), term)
                 \/ includes(toLowerCase(list[i].description), term)
                 \/ includes(toLowerCase(Chars(list[i].category)), term)
                 \/ \E k \in DOMAIN list[i].tags :
                        includes(toLowerCase(list[i].tags[k]), term)})

\* a < b on strings: by code units, a proper prefix first.
RECURSIVE StringLess(_, _)
StringLess(a, b) ==
    IF b = <<>> THEN FALSE
    ELSE IF a = <<>> THEN TRUE
    ELSE IF CharCode(Head(a)) # CharCode(Head(b))
         THEN CharCode(Head(a)) < CharCode(Head(b))
    ELSE StringLess(Tail(a), Tail(b))

\* priorityOrder[priority] || 0
priorityOrder(priority) ==
    CASE priority = "high" -> 3
      [] priority = "medium" -> 2
      [] priority = "low" -> 1
      [] OTHER -> 0

\* aValue < bValue for the values the switch on sortBy picks.
ValueLess(a, b, sortBy) ==
    CASE sortBy = "text" -> StringLess(toLowerCase(a.text), toLowerCase(b.text))
      [] sortBy = "priority" -> priorityOrder(a.priority) < priorityOrder(b.priority)
      [] sortBy = "category" ->
            StringLess(toLowerCase(Chars(a.category)), toLowerCase(Chars(b.category)))
      [] sortBy = "completed" ->
            (IF a.completed THEN 1 ELSE 0) < (IF b.completed THEN 1 ELSE 0)
      [] sortBy = "dueDate" ->
            (IF a.dueDate # NoDate THEN a.dueDate ELSE 0)
                < (IF b.dueDate # NoDate THEN b.dueDate ELSE 0)
      [] sortBy = "updatedAt" -> a.updatedAt < b.updatedAt
      [] OTHER -> a.createdAt < b.createdAt

\* The comparator with the order ignored: always ascending.
compare_ignoresOrder(a, b, sortBy, order) ==
    IF ValueLess(b, a, sortBy) THEN 1
    ELSE IF ValueLess(a, b, sortBy) THEN -1 ELSE 0

\* The comparator handed to Array.prototype.sort.
compare(a, b, sortBy, order) ==
    IF order = "asc"
    THEN IF ValueLess(b, a, sortBy) THEN 1
         ELSE IF ValueLess(a, b, sortBy) THEN -1 ELSE 0
    ELSE IF ValueLess(a, b, sortBy) THEN 1
         ELSE IF ValueLess(b, a, sortBy) THEN -1 ELSE 0

\* Array.prototype.sort is stable: x goes behind every element of the sorted
\* prefix that the comparator does not put after it.
RECURSIVE InsertSorted(_, _, _, _)
InsertSorted(sorted, x, sortBy, order) ==
    IF sorted = <<>> THEN <<x>>
    ELSE IF compare(Head(sorted), x, sortBy, order) > 0 THEN <<x>> \o sorted
    ELSE <<Head(sorted)>> \o InsertSorted(Tail(sorted), x, sortBy, order)

RECURSIVE SortPrefix(_, _, _, _)
SortPrefix(list, n, sortBy, order) ==
    IF n = 0 THEN <<>>
    ELSE InsertSorted(SortPrefix(list, n - 1, sortBy, order), list[n], sortBy, order)

sortTodos(list, sortBy, order) == SortPrefix(list, Len(list), sortBy, order)

\* Math.round(x) for x = num / den >= 0: halves round up.
MathRound(num, den) == (2 * num + den) \div (2 * den)

\* The keys a reduce over the list has put into acc, with their counts.
CountBy(list, f) ==
    [v \in {list[i][f] : i \in DOMAIN list} |->
        Cardinality({i \in DOMAIN list : list[i][f] = v})]

\* getTodoStats that counts the overdue records among all, completed or not.
getTodoStats_overdueOfAll(list, t) ==
    LET total == Len(list)
        completed == Cardinality({i \in DOMAIN list : list[i].completed})
    IN  [total |-> total,
         completed |-> completed,
         active |-> total - completed,
         overdue |-> Cardinality({i \in DOMAIN list :
                        list[i].dueDate # NoDate /\ list[i].dueDate < t}),
         completionRate |-> IF total > 0 THEN MathRound(completed * 100, total) ELSE 0,
         byCategory |-> CountBy(list, "category"),
         byPriority |-> CountBy(list, "priority")]

\* getTodoStats; t is the reading of new Date().
getTodoStats(list, t) ==
    LET total == Len(list)
        completed == Cardinality({i \in DOMAIN list : list[i].completed})
    IN  [total |-> total,
         completed |-> completed,
         active |-> total - completed,
         overdue |-> Cardinality({i \in DOMAIN list :
                        /\ list[i].dueDate # NoDate
                        /\ ~list[i].completed
                        /\ list[i].dueDate < t}),
         completionRate |-> IF total > 0 THEN MathRound(completed * 100, total) ELSE 0,
         byCategory |-> CountBy(list, "category"),
         byPriority |-> CountBy(list, "priority")]

---------------------------------------------------------------------------
\* src/src/App.jsx: the TodoProvider.  A state updater passed to setTodos is
\* kept as data until the next render runs it.

\* generateId()
generateId(fresh) == fresh

\* The record addTodo builds from the form's data.
ProviderNewTodo(todoData, id, t1, t2) ==
    [id |-> id,
     text |-> todoData.text,
     description |-> IF "description" \in DOMAIN todoData /\ ~Falsy(todoData.description)
                     THEN todoData.description ELSE <<>>,
     priority |-> IF "priority" \in DOMAIN todoData THEN todoData.priority ELSE "medium",
     category |-> IF "category" \in DOMAIN todoData THEN todoData.category ELSE "general",
     completed |-> FALSE,
     createdAt |-> t1,
     updatedAt |-> t2,
     dueDate |-> IF "dueDate" \in DOMAIN todoData THEN todoData.dueDate ELSE NoDate]

\* prevTodos => [newTodo, ...prevTodos]
ProviderAddTodo(prevTodos, newTodo) == <<newTodo>> \o prevTodos

\* The updater of updateTodo; t is the clock when the updater runs.
ProviderUpdateTodo(prevTodos, id, updates, t) ==
    [i \in DOMAIN prevTodos |->
        IF prevTodos[i].id = id
        THEN Spread(Spread(prevTodos[i], updates), [updatedAt |-> t])
        ELSE prevTodos[i]]

ProviderDeleteTodo(prevTodos, id) ==
    Filter(prevTodos, {i \in DOMAIN prevTodos : prevTodos[i].id # id})

\* The argument toggleTodo hands to updateTodo, from the rendered list.
ProviderToggleUpdates(rendered, id) ==
    LET k == FindIdx(rendered, id)
    IN  [completed |-> IF k = 0 THEN TRUE ELSE ~rendered[k].completed]

ProviderClearCompleted(prevTodos) ==
    Filter(prevTodos, {i \in DOMAIN prevTodos : ~prevTodos[i].completed})

\* todos.some(todo => !todo.completed), on the rendered list
HasIncomplete(rendered) == \E i \in DOMAIN rendered : ~rendered[i].completed

\* The updater of markAllCompleted.
ProviderMarkAllCompleted(prevTodos, hasIncomplete) ==
    [i \in DOMAIN prevTodos |-> Spread(prevTodos[i], [completed |-> hasIncomplete])]

\* filteredTodos, computed at each render from the rendered list, the filter
\* and the search query; an empty query is the only one that is falsy.
ProviderFilteredTodos(rendered, filter, searchQuery) ==
    Filter(rendered, {i \in DOMAIN rendered :
        LET todo == rendered[i]
            matchesFilter ==
                \/ filter = "all"
                \/ (filter = "active" /\ ~todo.completed)
                \/ (filter = "completed" /\ todo.completed)
            matchesSearch ==
                \/ Falsy(searchQuery)
                \/ includes(toLowerCase(todo.text), toLowerCase(searchQuery))
                \/ includes(toLowerCase(todo.description), toLowerCase(searchQuery))
                \/ includes(toLowerCase(Chars(todo.category)), toLowerCase(searchQuery))
        IN  matchesFilter /\ matchesSearch})

\* The stats object the provider computes from the rendered list.
ProviderStats(rendered, t) ==
    [total |-> Len(rendered),
     completed |-> Cardinality({i \in DOMAIN rendered : rendered[i].completed}),
     active |-> Cardinality({i \in DOMAIN rendered : ~rendered[i].completed}),
     overdue |-> Cardinality({i \in DOMAIN rendered :
                    /\ ~rendered[i].completed
                    /\ rendered[i].dueDate # NoDate
                    /\ rendered[i].dueDate < t})]

\* One queued updater run on the state before it.
RunUpdater(u, prevTodos, t) ==
    CASE u.kind = "set" -> u.list
      [] u.kind = "add" -> ProviderAddTodo(prevTodos, u.todo)
      [] u.kind = "update" -> ProviderUpdateTodo(prevTodos, u.id, u.updates, t)
      [] u.kind = "delete" -> ProviderDeleteTodo(prevTodos, u.id)
      [] u.kind = "clear" -> ProviderClearCompleted(prevTodos)
      [] u.kind = "markAll" -> ProviderMarkAllCompleted(prevTodos, u.flag)
      [] OTHER -> prevTodos

\* The state after the queued updaters, run in the order they were queued.
RECURSIVE RunQueue(_, _, _)
RunQueue(q, prevTodos, t) ==
    IF q = <<>> THEN prevTodos
    ELSE RunQueue(Tail(q), RunUpdater(Head(q), prevTodos, t), t)

\* An updater queued by one of the provider's handlers (addTodo, updateTodo,
\* deleteTodo, toggleTodo, clearCompleted, markAllCompleted), as opposed to
\* the load effect's setTodos(loadTodos()).
IsMutation(u) == u.kind \in {"add", "update", "delete", "clear", "markAll"}

\* The handlers' updaters among the queued ones, counted on top of acc, and
\* the list the latest of them ran on; with none applied the list itself.
RECURSIVE Track(_, _, _, _)
Track(q, prevTodos, t, acc) ==
    IF q = <<>>
    THEN IF acc.n = 0 THEN [n |-> 0, before |-> prevTodos] ELSE acc
    ELSE Track(Tail(q), RunUpdater(Head(q), prevTodos, t), t,
               IF IsMutation(Head(q))
               THEN [n |-> acc.n + 1, before |-> prevTodos]
               ELSE acc)

---------------------------------------------------------------------------
\* Inputs.

\* An id no uuidv4() call of this session yields: one from another session.
ForeignId == MaxIds + 1

IdInputs == 1..ForeignId

IdsInputs == {{}, {1}, {ForeignId}, 1..MaxIds}

TextInputs == {<<>>, <<" ">>, <<"a">>, <<" ", "a", " ">>}

CategoryInputs == {"general"}
PriorityInputs == {"medium"}

\* partialFields arguments of update and batchUpdate: a whitespace-only
\* text, an untrimmed text, an id and a createdAt, and an empty text with a
\* completed flag and an updatedAt.
UpdateInputs ==
    {[text |-> <<" ">>],
     [text |-> <<" ", "a", " ">>],
     [id |-> 1, createdAt |-> MaxClock],
     [text |-> <<>>, completed |-> TRUE, updatedAt |-> 0]}

\* A record as an older version of the program stored it.
OldSchemaEntry ==
    [id |-> ForeignId, text |-> <<"a">>, completed |-> TRUE, updatedAt |-> 0]

\* What the slot may hold when the program starts.
InitialSlots ==
    {[kind |-> "absent", val |-> <<>>],
     [kind |-> "garbage", val |-> <<>>],
     [kind |-> "array", val |-> <<OldSchemaEntry>>]}

\* A record as this version stores it, with a tag and a due date.
StoredFull ==
    [id |-> ForeignId, text |-> <<"a">>, completed |-> FALSE,
     category |-> "work", priority |-> "high", createdAt |-> 0, updatedAt |-> 0,
     dueDate |-> MaxClock, tags |-> <<<<"x">>>>, description |-> <<"d">>]

\* What the slot may hold when the provider mounts: also a snapshot this
\* version wrote.
ProviderSlots == InitialSlots \cup {[kind |-> "array", val |-> <<StoredFull>>]}

\* A record stored with createdAt: null.
NullDateEntry ==
    [id |-> ForeignId, text |-> <<"a">>, createdAt |-> NoDate, updatedAt |-> 0]

\* Elements of an imported array: without an id, with an id and an untrimmed
\* text and a createdAt ahead of the clock, without a text, and null.
EntryNoId == [text |-> <<"a">>]
EntryFull ==
    [id |-> ForeignId, text |-> <<" ", "a", " ">>, completed |-> TRUE,
     createdAt |-> MaxClock]
EntryNoText == [id |-> ForeignId]

\* What the slot may hold when a session that only reads it starts: also a
\* slot getItem throws on, a value that parses to something other than an
\* array, and arrays with a null, with a number, with a null date and no
\* id, and with records of both schemas.
StoredSlots ==
    InitialSlots \cup
    {[kind |-> "unreadable", val |-> <<>>],
     [kind |-> "object", val |-> <<>>],
     [kind |-> "array", val |-> <<>>],
     [kind |-> "array", val |-> <<OldSchemaEntry, NullEntry>>],
     [kind |-> "array", val |-> <<NumberEntry>>],
     [kind |-> "array", val |-> <<NullDateEntry, EntryNoId>>],
     [kind |-> "array", val |-> <<StoredFull, OldSchemaEntry>>]}

\* What the FileReader may deliver.
FileInputs ==
    {[kind |-> "unreadable", val |-> <<>>],
     [kind |-> "garbage", val |-> <<>>],
     [kind |-> "object", val |-> <<>>],
     [kind |-> "array", val |-> <<>>],
     [kind |-> "array", val |-> <<EntryNoId>>],
     [kind |-> "array", val |-> <<EntryFull, EntryFull>>],
     [kind |-> "array", val |-> <<NullEntry, EntryFull, EntryNoText>>],
     [kind |-> "array", val |-> <<NumberTextEntry, EntryNoId>>]}

\* The form data the provider's addTodo is called with.
TodoDataInputs == {[text |-> <<" ">>], [text |-> <<"a">>, priority |-> "high"]}

\* The arguments of the provider's updateTodo.
ProviderUpdateInputs == {[text |-> <<" ", "a", " ">>, updatedAt |-> 0]}

\* The ids the provider's handlers are called with.
ProviderIdInputs == {1, ForeignId}

---------------------------------------------------------------------------
\* The state machine.

Init ==
    /\ mode \in {"helpers", "exchange", "provider"}
    /\ todos = <<>>
    /\ storage \in (CASE mode = "exchange" -> StoredSlots
                       [] mode = "provider" -> ProviderSlots
                       [] OTHER -> InitialSlots)
    /\ storageOk \in BOOLEAN
    /\ mode = "helpers" => storage.kind # "garbage"
    /\ ~storageOk => storage.kind = "array"
    /\ now = 0
    /\ nextId = 1
    /\ last = [op |-> "init", threw |-> "", writes |-> 0]
    /\ queue = <<>>
    /\ isLoading = TRUE
    /\ effects = <<>>
    /\ mounted = FALSE
    /\ unsaved = [n |-> 0, before |-> <<>>]

\* Time passes.
Tick ==
    /\ now < MaxClock
    /\ now' = now + 1
    /\ UNCHANGED <<mode, todos, storage, storageOk, nextId, last,
                   queue, isLoading, effects, mounted, unsaved>>

\* The caller replaces its list by what a helper returned (or keeps it when
\* the helper threw), and the helper's saveTodos calls reach the slot.
Outcome(r) ==
    [todos |-> IF r.threw = "" THEN r.ret ELSE todos,
     storage |-> Persist(r.saved, storage, storageOk)]

Apply(op, r) ==
    /\ r.threw = "" => Len(r.ret) <= MaxLen
    /\ todos' = Outcome(r).todos
    /\ storage' = Outcome(r).storage
    /\ last' = [op |-> op, threw |-> r.threw, writes |-> Len(r.saved)]
    /\ UNCHANGED <<mode, storageOk, queue, isLoading, effects, mounted, unsaved>>

\* The two clock readings of createTodo: the second is not before the first.
Readings == {t \in {now, now + 1} : t <= MaxClock}

AddTodoWith(text, category, priority, t2) ==
    LET r == addTodo(todos, text, category, priority, nextId, now, t2) IN
    /\ mode = "helpers"
    /\ nextId <= MaxIds
    /\ Apply("addTodo", r)
    /\ nextId' = IF r.threw = "" THEN nextId + 1 ELSE nextId
    /\ now' = t2

AddTodo ==
    \E text \in TextInputs, c \in CategoryInputs, p \in PriorityInputs,
       t2 \in Readings : AddTodoWith(text, c, p, t2)

UpdateTodoWith(id, updates) ==
    /\ mode = "helpers"
    /\ Apply("updateTodo", updateTodo(todos, id, updates, now))
    /\ UNCHANGED <<now, nextId>>

UpdateTodo == \E id \in IdInputs, updates \in UpdateInputs : UpdateTodoWith(id, updates)

ToggleTodoWith(id) ==
    /\ mode = "helpers"
    /\ Apply("toggleTodo", toggleTodo(todos, id, now))
    /\ UNCHANGED <<now, nextId>>

ToggleTodo == \E id \in IdInputs : ToggleTodoWith(id)

DeleteTodoWith(id) ==
    /\ mode = "helpers"
    /\ Apply("deleteTodo", deleteTodo(todos, id))
    /\ UNCHANGED <<now, nextId>>

DeleteTodo == \E id \in IdInputs : DeleteTodoWith(id)

DeleteTodosWith(ids) ==
    /\ mode = "helpers"
    /\ Apply("deleteTodos", deleteTodos(todos, ids))
    /\ UNCHANGED <<now, nextId>>

DeleteTodos == \E ids \in IdsInputs : DeleteTodosWith(ids)

ClearCompleted ==
    /\ mode = "helpers"
    /\ Apply("clearCompleted", clearCompleted(todos))
    /\ UNCHANGED <<now, nextId>>

ToggleAllTodosWith(completed) ==
    /\ mode = "helpers"
    /\ Apply("toggleAllTodos", toggleAllTodos(todos, completed, now))
    /\ UNCHANGED <<now, nextId>>

ToggleAllTodos == \E completed \in BOOLEAN : ToggleAllTodosWith(completed)

DuplicateTodoWith(id, t2) ==
    LET r == duplicateTodo(todos, id, nextId, now, t2) IN
    /\ mode = "helpers"
    /\ nextId <= MaxIds
    /\ Apply("duplicateTodo", r)
    /\ nextId' = IF r.threw = "" THEN nextId + 1 ELSE nextId
    /\ now' = t2

DuplicateTodo == \E id \in IdInputs, t2 \in Readings : DuplicateTodoWith(id, t2)

BatchUpdateTodosWith(ids, updates) ==
    /\ mode = "helpers"
    /\ Apply("batchUpdateTodos", batchUpdateTodos(todos, ids, updates, now))
    /\ UNCHANGED <<now, nextId>>

BatchUpdateTodos ==
    \E ids \in IdsInputs, updates \in UpdateInputs : BatchUpdateTodosWith(ids, updates)

\* The number of uuids that stay in the result: one per entry without an id.
IdLess(entries) == IdLessBefore(entries, Len(entries) + 1)

\* The caller reads the slot and takes the result as its list.
LoadTodos ==
    LET loaded == loadTodos(storage, nextId, now)
        used == IF loaded = <<>> THEN 0 ELSE IdLess(storage.val)
    IN  /\ mode = "exchange"
        /\ nextId + used <= MaxIds + 1
        /\ Apply("loadTodos", Returned(loaded, <<>>))
        /\ nextId' = nextId + used
        /\ UNCHANGED now

\* The caller imports a file and, when the promise resolves, takes the
\* result as its list.
ImportTodosWith(file) ==
    LET r == importTodos(file, nextId, now)
        used == IF r.threw = "" THEN IdLess(ImportValid(file.val)) ELSE 0
    IN  /\ mode = "exchange"
        /\ nextId + used <= MaxIds + 1
        /\ Apply("importTodos", r)
        /\ nextId' = nextId + used
        /\ UNCHANGED now

ImportTodos == \E file \in FileInputs : ImportTodosWith(file)

---------------------------------------------------------------------------
\* The TodoProvider's steps.

\* The first render: todos = [], isLoading = true; both effects are scheduled.
Mount ==
    /\ mode = "provider"
    /\ ~mounted
    /\ mounted' = TRUE
    /\ effects' = <<"load", "save">>
    /\ last' = [op |-> "mount", threw |-> "", writes |-> 0]
    /\ UNCHANGED <<mode, todos, storage, storageOk, now, nextId, queue, isLoading,
                   unsaved>>

\* useEffect(() => { setTodos(loadTodos()); setIsLoading(false) }, [])
LoadEffect ==
    LET loaded == loadTodos(storage, nextId, now)
        used == IF loaded = <<>> THEN 0 ELSE IdLess(storage.val)
    IN  /\ mode = "provider"
        /\ effects # <<>> /\ Head(effects) = "load"
        /\ nextId + used <= MaxIds + 1
        /\ effects' = Tail(effects)
        /\ queue' = queue \o <<[kind |-> "set", list |-> loaded],
                               [kind |-> "setIsLoading"]>>
        /\ nextId' = nextId + used
        /\ last' = [op |-> "loadEffect", threw |-> "", writes |-> 0]
        /\ UNCHANGED <<mode, todos, storage, storageOk, now, isLoading, mounted,
                       unsaved>>

\* The save effect without its isLoading guard.
SaveEffect_writesWhileLoading ==
    /\ mode = "provider"
    /\ effects # <<>> /\ Head(effects) = "save"
    /\ effects' = Tail(effects)
    /\ storage' = saveTodos(todos, storage, storageOk).slot
    /\ last' = [op |-> "saveEffect", threw |-> "", writes |-> 1]
    /\ unsaved' = [n |-> 0, before |-> todos]
    /\ UNCHANGED <<mode, todos, storageOk, now, nextId, queue, isLoading, mounted>>

\* useEffect(() => { if (!isLoading) saveTodos(todos) }, [todos, isLoading])
SaveEffect ==
    /\ mode = "provider"
    /\ effects # <<>> /\ Head(effects) = "save"
    /\ effects' = Tail(effects)
    /\ storage' = IF isLoading THEN storage
                  ELSE saveTodos(todos, storage, storageOk).slot
    /\ last' = [op |-> "saveEffect", threw |-> "",
                writes |-> IF isLoading THEN 0 ELSE 1]
    /\ unsaved' = [n |-> 0, before |-> todos]
    /\ UNCHANGED <<mode, todos, storageOk, now, nextId, queue, isLoading, mounted>>

\* React renders: the queued updaters run in order; the save effect is
\* scheduled because todos (a new array) or isLoading changed.
Render ==
    /\ mode = "provider"
    /\ mounted /\ effects = <<>> /\ queue # <<>>
    /\ Len(RunQueue(queue, todos, now)) <= MaxLen
    /\ todos' = RunQueue(queue, todos, now)
    /\ isLoading' = (isLoading /\ \A i \in DOMAIN queue : queue[i].kind # "setIsLoading")
    /\ queue' = <<>>
    /\ effects' = <<"save">>
    /\ last' = [op |-> "render", threw |-> "", writes |-> 0]
    /\ unsaved' = Track(queue, todos, now, unsaved)
    /\ UNCHANGED <<mode, storage, storageOk, now, nextId, mounted>>

\* A handler of the rendered tree calls setTodos(updater).
Dispatch(op, u) ==
    /\ mode = "provider"
    /\ mounted /\ effects = <<>> /\ Len(queue) < MaxQueue
    /\ queue' = Append(queue, u)
    /\ last' = [op |-> op, threw |-> "", writes |-> 0]
    /\ UNCHANGED <<mode, todos, storage, storageOk, isLoading, effects, mounted,
                   unsaved>>

ProviderAdd ==
    /\ nextId <= MaxIds
    /\ \E todoData \in TodoDataInputs :
          /\ Dispatch("provider.addTodo",
                      [kind |-> "add",
                       todo |-> ProviderNewTodo(todoData, generateId(nextId), now, now)])
          /\ nextId' = nextId + 1
          /\ UNCHANGED now

ProviderUpdate ==
    \E id \in ProviderIdInputs, updates \in ProviderUpdateInputs :
        /\ Dispatch("provider.updateTodo",
                    [kind |-> "update", id |-> id, updates |-> updates])
        /\ UNCHANGED <<now, nextId>>

ProviderDelete ==
    \E id \in ProviderIdInputs :
        /\ Dispatch("provider.deleteTodo", [kind |-> "delete", id |-> id])
        /\ UNCHANGED <<now, nextId>>

ProviderToggle ==
    \E id \in ProviderIdInputs :
        /\ Dispatch("provider.toggleTodo",
                    [kind |-> "update", id |-> id,
                     updates |-> ProviderToggleUpdates(todos, id)])
        /\ UNCHANGED <<now, nextId>>

ProviderClear ==
    /\ Dispatch("provider.clearCompleted", [kind |-> "clear"])
    /\ UNCHANGED <<now, nextId>>

ProviderMarkAll ==
    /\ Dispatch("provider.markAllCompleted",
                [kind |-> "markAll", flag |-> HasIncomplete(todos)])
    /\ UNCHANGED <<now, nextId>>

Next ==
    \/ Tick
    \/ AddTodo
    \/ UpdateTodo
    \/ ToggleTodo
    \/ DeleteTodo
    \/ DeleteTodos
    \/ ClearCompleted
    \/ ToggleAllTodos
    \/ DuplicateTodo
    \/ BatchUpdateTodos
    \/ LoadTodos
    \/ ImportTodos
    \/ Mount
    \/ LoadEffect
    \/ SaveEffect
    \/ Render
    \/ ProviderAdd
    \/ ProviderUpdate
    \/ ProviderDelete
    \/ ProviderToggle
    \/ ProviderClear
    \/ ProviderMarkAll

Spec == Init /\ [][Next]_vars

---------------------------------------------------------------------------
\* The read-only helpers (sortTodos, getTodoStats) and the provider's stats,
\* on lists with several priorities, categories and due dates.

\* A view shows lists of at most ViewMaxLen records.
ViewMaxLen == 3

\* src/src/components/TodoList.jsx: a due date before the start of today; one
\* unit of the clock is one day, so today starts at the clock's value.
isOverdue(dueDate, t) == dueDate # NoDate /\ dueDate < t

\* The component's filteredTodos, from its todos and filter props; a record
\* without a favorite field has todo.favorite undefined.
TodoListFilteredTodos(list, filter, t) ==
    Filter(list, {i \in DOMAIN list :
        CASE filter = "completed" -> list[i].completed
          [] filter = "pending" -> ~list[i].completed
          [] filter = "favorites" ->
                 "favorite" \in DOMAIN list[i] /\ list[i].favorite
          [] filter = "overdue" ->
                 ~list[i].completed /\ isOverdue(list[i].dueDate, t)
          [] OTHER -> TRUE})

TodoLow ==
    [id |-> 1, text |-> <<"b">>, completed |-> FALSE, category |-> "work",
     priority |-> "low", createdAt |-> 0, updatedAt |-> MaxClock,
     dueDate |-> NoDate, tags |-> <<>>, description |-> <<>>]
TodoHigh ==
    [id |-> 2, text |-> <<"A">>, completed |-> TRUE, category |-> "general",
     priority |-> "high", createdAt |-> MaxClock, updatedAt |-> MaxClock,
     dueDate |-> 0, tags |-> <<<<"x">>>>, description |-> <<"d">>]
TodoMedium ==
    [id |-> 3, text |-> <<"a">>, completed |-> FALSE, category |-> "Work",
     priority |-> "medium", createdAt |-> 0, updatedAt |-> 0,
     dueDate |-> 0, tags |-> <<>>, description |-> <<>>]
\* A priority the priorityOrder table does not know.
TodoUrgent ==
    [id |-> 4, text |-> <<"B">>, completed |-> FALSE, category |-> "general",
     priority |-> "urgent", createdAt |-> MaxClock, updatedAt |-> 0,
     dueDate |-> MaxClock, tags |-> <<>>, description |-> <<>>]

ViewRecords == {TodoLow, TodoHigh, TodoMedium, TodoUrgent}

ViewLists == UNION {[1..n -> ViewRecords] : n \in 0..ViewMaxLen}

SortByInputs ==
    {"text", "priority", "category", "completed", "dueDate", "updatedAt",
     "createdAt"}

OrderInputs == {"asc", "desc"}

ViewInit ==
    /\ mode = "views"
    /\ todos \in ViewLists
    /\ storage = [kind |-> "absent", val |-> <<>>]
    /\ storageOk = TRUE
    /\ now = 0
    /\ nextId = 1
    /\ last = [op |-> "init", threw |-> "", writes |-> 0]
    /\ queue = <<>>
    /\ isLoading = TRUE
    /\ effects = <<>>
    /\ mounted = FALSE
    /\ unsaved = [n |-> 0, before |-> <<>>]

\* The caller shows the list in the order sortTodos returns.
SortTodosWith(sortBy, order) ==
    /\ mode = "views"
    /\ todos' = sortTodos(todos, sortBy, order)
    /\ last' = [op |-> "sortTodos", threw |-> "", writes |-> 0]
    /\ UNCHANGED <<mode, storage, storageOk, now, nextId, queue, isLoading,
                   effects, mounted, unsaved>>

SortTodos ==
    \E sortBy \in SortByInputs, order \in OrderInputs : SortTodosWith(sortBy, order)

\* The caller reads the statistics of its list; the list stays as it is.
GetTodoStats ==
    /\ mode = "views"
    /\ getTodoStats(todos, now).total = Len(todos)
    /\ last' = [op |-> "getTodoStats", threw |-> "", writes |-> 0]
    /\ UNCHANGED <<mode, todos, storage, storageOk, now, nextId, queue,
                   isLoading, effects, mounted, unsaved>>

\* Search terms: empty, blank, in either case, padded, and ones that occur
\* only in a tag, a description or a category.
SearchInputs ==
    {<<>>, <<" ">>, <<"a">>, <<"A">>, <<" ", "a">>, <<"x">>, <<"d">>,
     <<"w", "O">>, <<"y">>}

\* The values of the status filter, and the one only TodoList knows.
FilterInputs == {"all", "active", "completed", "pending"}

\* The caller shows the records searchTodos returns.
SearchTodosWith(searchTerm) ==
    /\ mode = "views"
    /\ todos' = searchTodos(todos, searchTerm)
    /\ last' = [op |-> "searchTodos", threw |-> "", writes |-> 0]
    /\ UNCHANGED <<mode, storage, storageOk, now, nextId, queue, isLoading,
                   effects, mounted, unsaved>>

SearchTodos == \E searchTerm \in SearchInputs : SearchTodosWith(searchTerm)

\* The caller shows the records filterTodos returns.
FilterTodosWith(filter) ==
    /\ mode = "views"
    /\ todos' = filterTodos(todos, filter)
    /\ last' = [op |-> "filterTodos", threw |-> "", writes |-> 0]
    /\ UNCHANGED <<mode, storage, storageOk, now, nextId, queue, isLoading,
                   effects, mounted, unsaved>>

FilterTodos == \E filter \in FilterInputs : FilterTodosWith(filter)

ViewNext ==
    \/ Tick
    \/ SortTodos
    \/ GetTodoStats
    \/ SearchTodos
    \/ FilterTodos

ViewSpec == ViewInit /\ [][ViewNext]_vars

---------------------------------------------------------------------------
\* Properties.  The helpers are pure functions of the list, so a property of
\* an operation is stated of its result on every list a session can hold.

\* s is text without its leading and trailing spaces.
IsTrimOf(s, text) ==
    \E i \in 1..(Len(text) + 1), j \in 0..Len(text) :
        /\ s = SubSeq(text, i, j)
        /\ \A k \in 1..Len(text) : (k < i \/ k > j) => text[k] = " "
        /\ s # <<>> => (s[1] # " " /\ s[Len(s)] # " ")

\* text is empty or consists of spaces only.
Blank(text) == \A k \in 1..Len(text) : text[k] = " "

\* C1: create with a text that is not blank returns the new record followed
\* by the list as it was; the new record is not completed, carries the
\* trimmed text and an id no record of the list has.
C1_CreatePrepends ==
    (mode = "helpers" /\ nextId <= MaxIds) =>
        \A text \in TextInputs, c \in CategoryInputs, p \in PriorityInputs,
           t2 \in Readings :
            ~Blank(text) =>
                LET r == addTodo(todos, text, c, p, nextId, now, t2) IN
                /\ r.threw = ""
                /\ Len(r.ret) = Len(todos) + 1
                /\ SubSeq(r.ret, 2, Len(r.ret)) = todos
                /\ r.ret[1].completed = FALSE
                /\ IsTrimOf(r.ret[1].text, text)
                /\ r.ret[1].id \notin Ids(todos)

\* create has just added a record with the text "a" to a list that held a
\* record with another id already.
C1_Witness ==
    /\ last.op = "addTodo" /\ last.threw = ""
    /\ Len(todos) = 2
    /\ todos[1].id # todos[2].id
    /\ todos[1].text = <<"a">>

\* C2: create with a blank text throws the validation error, leaves the
\* list as it was and writes nothing to the slot.
C2_CreateRejectsBlank ==
    (mode = "helpers" /\ nextId <= MaxIds) =>
        \A text \in TextInputs, c \in CategoryInputs, p \in PriorityInputs,
           t2 \in Readings :
            Blank(text) =>
                LET r == addTodo(todos, text, c, p, nextId, now, t2) IN
                /\ r.threw = "Todo text cannot be empty"
                /\ r.saved = <<>>
                /\ Outcome(r).todos = todos
                /\ Outcome(r).storage = storage

\* create has just thrown on a list that holds a record.
C2_Witness ==
    /\ last.op = "addTodo" /\ last.threw = "Todo text cannot be empty"
    /\ last.writes = 0
    /\ todos # <<>>
    /\ storage = Stringified(todos)

\* C3: in a session of the helpers or of import, no two records of the list
\* have the same id.
C3_IdsUnique == mode \in {"helpers", "exchange"} => DistinctIds(todos)

\* r holds the records of the list in order, each with its id and createdAt.
KeepsIdentity(r) ==
    /\ Len(r) = Len(todos)
    /\ \A i \in DOMAIN todos :
          r[i].id = todos[i].id /\ r[i].createdAt = todos[i].createdAt

\* C4: update, toggleCompleted, toggleAll and batchUpdate leave every
\* record's id and createdAt as they were, whatever partialFields holds.
C4_IdAndCreatedAtFixed ==
    mode = "helpers" =>
        \A id \in IdInputs, updates \in UpdateInputs, ids \in IdsInputs,
           completed \in BOOLEAN :
            /\ KeepsIdentity(updateTodo(todos, id, updates, now).ret)
            /\ KeepsIdentity(toggleTodo(todos, id, now).ret)
            /\ KeepsIdentity(toggleAllTodos(todos, completed, now).ret)
            /\ KeepsIdentity(batchUpdateTodos(todos, ids, updates, now).ret)

\* C5: in a session of the mutation helpers or of the provider, every
\* record's text is non-empty and has no leading or trailing whitespace.
C5_TextsTrimmed ==
    mode \in {"helpers", "provider"} =>
        \A i \in DOMAIN todos :
            /\ todos[i].text # <<>>
            /\ todos[i].text[1] # " "
            /\ todos[i].text[Len(todos[i].text)] # " "

\* C6: in a session of the helpers or of load and import, every record's
\* updatedAt is not before its createdAt.
C6_UpdatedNotBeforeCreated ==
    mode \in {"helpers", "exchange"} =>
        \A i \in DOMAIN todos : todos[i].updatedAt >= todos[i].createdAt

\* Every record of r that differs from the list's carries the time t.
Restamped(r, t) ==
    /\ Len(r) = Len(todos)
    /\ \A i \in DOMAIN todos : r[i] # todos[i] => r[i].updatedAt = t

\* C7: a mutation that changes a field of a record sets the record's
\* updatedAt to the time of the mutation: the helpers' update, toggle,
\* batchUpdate and toggleAll, the provider's updateTodo and markAllCompleted.
C7_MutationRestamps ==
    /\ mode = "helpers" =>
          \A id \in IdInputs, updates \in UpdateInputs, ids \in IdsInputs,
             completed \in BOOLEAN :
              /\ Restamped(updateTodo(todos, id, updates, now).ret, now)
              /\ Restamped(toggleTodo(todos, id, now).ret, now)
              /\ Restamped(batchUpdateTodos(todos, ids, updates, now).ret, now)
              /\ Restamped(toggleAllTodos(todos, completed, now).ret, now)
    /\ mode = "provider" =>
          /\ \A id \in ProviderIdInputs, updates \in ProviderUpdateInputs :
                Restamped(ProviderUpdateTodo(todos, id, updates, now), now)
          /\ Restamped(ProviderMarkAllCompleted(todos, HasIncomplete(todos)), now)

\* r is todo with the fields of updates merged in and updatedAt set to t;
\* with trimText a non-empty text of updates is trimmed and an empty one
\* leaves the text as it was.
IsMerge(r, todo, updates, t, trimText) ==
    /\ DOMAIN r = (DOMAIN todo) \cup (DOMAIN updates)
    /\ r.updatedAt = t
    /\ \A f \in (DOMAIN r) \ {"updatedAt", "text"} :
          r[f] = IF f \in DOMAIN updates THEN updates[f] ELSE todo[f]
    /\ IF "text" \notin DOMAIN updates THEN r.text = todo.text
       ELSE IF ~trimText THEN r.text = updates.text
       ELSE IF updates.text = <<>> THEN r.text = todo.text
       ELSE IsTrimOf(r.text, updates.text)

\* C8: update returns a list of the same length and order; a record whose id
\* differs from the given id is the input record, and a record whose id is
\* the given id has the fields merged and updatedAt refreshed.
C8_UpdateFrame ==
    /\ mode = "helpers" =>
          \A id \in IdInputs, updates \in UpdateInputs :
              LET r == updateTodo(todos, id, updates, now).ret IN
              /\ Len(r) = Len(todos)
              /\ \A i \in DOMAIN todos :
                    IF todos[i].id = id
                    THEN IsMerge(r[i], todos[i], updates, now, TRUE)
                    ELSE r[i] = todos[i]
    /\ mode = "provider" =>
          \A id \in ProviderIdInputs, updates \in ProviderUpdateInputs :
              LET r == ProviderUpdateTodo(todos, id, updates, now) IN
              /\ Len(r) = Len(todos)
              /\ \A i \in DOMAIN todos :
                    IF todos[i].id = id
                    THEN IsMerge(r[i], todos[i], updates, now, FALSE)
                    ELSE r[i] = todos[i]

\* update has just refreshed one of two records and left the other, older
\* one as it was.
C8_Witness ==
    /\ last.op = "updateTodo"
    /\ Len(todos) = 2
    /\ \E i, j \in DOMAIN todos :
          /\ todos[i].id # todos[j].id
          /\ todos[i].updatedAt = now
          /\ todos[j].updatedAt < now

\* C9: delete, update and toggleCompleted with an id no record has return
\* the list as it was; toggleCompleted sets no record's completed.
C9_AbsentIdNoOp ==
    mode = "helpers" =>
        \A id \in IdInputs \ Ids(todos), updates \in UpdateInputs :
            /\ deleteTodo(todos, id).ret = todos
            /\ updateTodo(todos, id, updates, now).ret = todos
            /\ toggleTodo(todos, id, now).ret = todos

\* toggleCompleted has just run on a list with an incomplete record and has
\* matched none: a matched record would carry the current time.
C9_Witness ==
    /\ last.op = "toggleTodo"
    /\ todos # <<>>
    /\ \E i \in DOMAIN todos : ~todos[i].completed
    /\ \A i \in DOMAIN todos : todos[i].updatedAt < now

\* C10: on a list with distinct ids, toggling a record twice gives back its
\* completed value, and nothing else differs from the list except the
\* updatedAt of that record.
C10_ToggleTwice ==
    (mode = "helpers" /\ DistinctIds(todos)) =>
        \A id \in Ids(todos), t2 \in now..MaxClock :
            LET once == toggleTodo(todos, id, now).ret
                twice == toggleTodo(once, id, t2).ret
            IN  /\ Len(twice) = Len(todos)
                /\ \A i \in DOMAIN todos :
                      /\ once[i].completed =
                            (IF todos[i].id = id THEN ~todos[i].completed
                             ELSE todos[i].completed)
                      /\ twice[i].completed = todos[i].completed
                      /\ IF todos[i].id = id
                         THEN /\ DOMAIN twice[i] = DOMAIN todos[i]
                              /\ \A f \in (DOMAIN todos[i]) \ {"updatedAt"} :
                                    twice[i][f] = todos[i][f]
                         ELSE twice[i] = todos[i]

\* toggleCompleted has just set a record of a two-record list back to
\* incomplete, after the record was created.
C10_Witness ==
    /\ last.op = "toggleTodo"
    /\ Len(todos) = 2 /\ DistinctIds(todos)
    /\ \E i \in DOMAIN todos :
          /\ ~todos[i].completed
          /\ todos[i].updatedAt = now
          /\ todos[i].createdAt < now

\* A helper call that returned handed the returned list to saveTodos, once;
\* one that threw handed it nothing.
SavedOnce(r) ==
    IF r.threw = "" THEN r.saved = <<r.ret>> ELSE r.saved = <<>>

\* C11: every helper mutation calls saveTodos exactly once; in the provider
\* a write the save effect is about to make follows exactly one handler's
\* mutation of the list, and every mutation applied to the list has such a
\* write pending.
C11_OneWritePerMutation ==
    /\ mode = "helpers" =>
          \A id \in IdInputs, ids \in IdsInputs, updates \in UpdateInputs,
             text \in TextInputs, c \in CategoryInputs, p \in PriorityInputs,
             completed \in BOOLEAN, t2 \in Readings \cup {now} :
              /\ SavedOnce(addTodo(todos, text, c, p, nextId, now, t2))
              /\ SavedOnce(updateTodo(todos, id, updates, now))
              /\ SavedOnce(toggleTodo(todos, id, now))
              /\ SavedOnce(deleteTodo(todos, id))
              /\ SavedOnce(deleteTodos(todos, ids))
              /\ SavedOnce(clearCompleted(todos))
              /\ SavedOnce(toggleAllTodos(todos, completed, now))
              /\ SavedOnce(duplicateTodo(todos, id, nextId, now, t2))
              /\ SavedOnce(batchUpdateTodos(todos, ids, updates, now))
    /\ mode = "provider" =>
          /\ (effects # <<>> /\ Head(effects) = "save" /\ ~isLoading)
                 => unsaved.n = 1
          /\ unsaved.n > 0
                 => (effects # <<>> /\ Head(effects) = "save" /\ ~isLoading)

\* The slot holds a snapshot the provider's save effect wrote.
ProviderWrote == storage \notin ProviderSlots

\* C12: in the provider, once loading has completed and a snapshot has been
\* written, with writes succeeding, the slot holds the current list or the
\* list as it was before the most recent mutation.
C12_SnapshotLagsByOne ==
    (mode = "provider" /\ ~isLoading /\ storageOk /\ ProviderWrote) =>
        storage \in {Stringified(todos), Stringified(unsaved.before)}

\* The slot's value parses to an array whose elements are all records.
IsRecordSeq(slot) ==
    /\ slot.kind = "array"
    /\ \A i \in DOMAIN slot.val :
          ~IsNullEntry(slot.val[i]) /\ ~IsNumberEntry(slot.val[i])

\* C13: load returns the empty sequence whenever the slot is absent, the
\* read fails, the value does not parse, or the parsed value is not a
\* sequence of records.
C13_LoadRejectsNonRecords ==
    mode = "exchange" =>
        (~IsRecordSeq(storage) => loadTodos(storage, nextId, now) = <<>>)

\* The fields of createTodo('') called at time t with the uuid id.
Defaults(id, t) ==
    [id |-> id, text |-> <<>>, completed |-> FALSE, category |-> "general",
     priority |-> "medium", createdAt |-> t, updatedAt |-> t,
     dueDate |-> NoDate, tags |-> <<>>, description |-> <<>>]

\* loaded is the stored record merged over the defaults; with nullDates a
\* createdAt or updatedAt stored as null takes the default as an absent one.
IsNormalised(loaded, stored, t, nullDates) ==
    /\ DOMAIN loaded = (DOMAIN Defaults(0, t)) \cup (DOMAIN stored)
    /\ \A f \in DOMAIN loaded :
          IF f \in DOMAIN stored
             /\ ~(nullDates /\ f \in {"createdAt", "updatedAt"}
                             /\ stored[f] = NoDate)
          THEN loaded[f] = stored[f]
          ELSE IF f = "id" THEN loaded[f] >= nextId /\ loaded[f] # ForeignId
          ELSE loaded[f] = Defaults(0, t)[f]

\* C14 (as claimed): load of an array of records returns as many records in
\* the same order, each with every default field, a stored field keeping its
\* stored value and an absent one taking the default.
C14_LoadKeepsStoredFields ==
    (mode = "exchange" /\ IsRecordSeq(storage) /\ nextId <= MaxIds) =>
        LET loaded == loadTodos(storage, nextId, now) IN
        /\ Len(loaded) = Len(storage.val)
        /\ \A i \in DOMAIN loaded :
              IsNormalised(loaded[i], storage.val[i], now, FALSE)

\* C14 (amended): as claimed, except that a createdAt or updatedAt stored as
\* null is replaced by the time of the load.
C14_LoadNormalises ==
    (mode = "exchange" /\ IsRecordSeq(storage) /\ nextId <= MaxIds) =>
        LET loaded == loadTodos(storage, nextId, now) IN
        /\ Len(loaded) = Len(storage.val)
        /\ \A i \in DOMAIN loaded :
              IsNormalised(loaded[i], storage.val[i], now, TRUE)

\* load has just returned a record of this version as stored, followed by a
\* record of the older schema with the defaults filled in.
C14_Witness ==
    /\ last.op = "loadTodos"
    /\ Len(todos) = 2
    /\ todos[1] = StoredFull
    /\ todos[2].id = OldSchemaEntry.id /\ todos[2].completed
    /\ todos[2].category = "general" /\ todos[2].dueDate = NoDate

\* The results of the mutation helpers on the list, over their inputs.
HelperResults ==
    {addTodo(todos, text, c, p, nextId, now, t2) :
        text \in TextInputs, c \in CategoryInputs, p \in PriorityInputs,
        t2 \in Readings \cup {now}}
    \cup {updateTodo(todos, id, updates, now) : id \in IdInputs, updates \in UpdateInputs}
    \cup {toggleTodo(todos, id, now) : id \in IdInputs}
    \cup {deleteTodo(todos, id) : id \in IdInputs}
    \cup {deleteTodos(todos, ids) : ids \in IdsInputs}
    \cup {clearCompleted(todos)}
    \cup {toggleAllTodos(todos, completed, now) : completed \in BOOLEAN}
    \cup {duplicateTodo(todos, id, nextId, now, t2) :
            id \in IdInputs, t2 \in Readings \cup {now}}
    \cup {batchUpdateTodos(todos, ids, updates, now) :
            ids \in IdsInputs, updates \in UpdateInputs}

\* C15: when the write fails, save returns false and leaves the slot as it
\* was; a helper mutation then gives its caller the list it built, throws
\* only where it throws before calling save, and the slot keeps the snapshot
\* it held.
C15_SaveFailureIsSoft ==
    (mode = "helpers" /\ ~storageOk) =>
        /\ storage \in InitialSlots
        /\ \A r \in HelperResults :
              /\ r.threw # "" => r.saved = <<>>
              /\ \A k \in DOMAIN r.saved :
                    saveTodos(r.saved[k], storage, storageOk)
                        = [slot |-> storage, ret |-> FALSE]
              /\ Outcome(r).todos = (IF r.threw = "" THEN r.ret ELSE todos)
              /\ Outcome(r).storage = storage

\* update has just called save on a list it changed, the write failed, and
\* the slot still holds what it held at the start.
C15_Witness ==
    /\ mode = "helpers" /\ ~storageOk
    /\ last.op = "updateTodo" /\ last.threw = "" /\ last.writes = 1
    /\ todos # <<>>
    /\ \E i \in DOMAIN todos : todos[i].updatedAt = now /\ todos[i].createdAt < now
    /\ storage \in InitialSlots

\* clone is a copy of original made at the readings t1 and t2: not completed,
\* the text suffixed, the dates fresh, an id no record of the list has, and
\* every other field as in the original.
IsCloneOf(clone, original, t1, t2) ==
    /\ DOMAIN clone = DOMAIN original
    /\ clone.id \notin Ids(todos)
    /\ clone.completed = FALSE
    /\ clone.text = original.text \o CopySuffix
    /\ clone.createdAt = t1 /\ clone.updatedAt = t2
    /\ \A f \in (DOMAIN original)
                 \ {"id", "completed", "text", "createdAt", "updatedAt"} :
          clone[f] = original[f]

\* C16: duplicate with an id no record has throws the not-found error and
\* leaves the list and the slot as they were; with an id a record has it
\* returns the list with one clone of that record added, the records of the
\* list unchanged.
C16_DuplicateClones ==
    (mode = "helpers" /\ nextId <= MaxIds) =>
        \A id \in IdInputs, t2 \in Readings :
            LET r == duplicateTodo(todos, id, nextId, now, t2) IN
            IF id \notin Ids(todos)
            THEN /\ r.threw = "Todo not found"
                 /\ Outcome(r).todos = todos
                 /\ Outcome(r).storage = storage
            ELSE /\ r.threw = ""
                 /\ Len(r.ret) = Len(todos) + 1
                 /\ SubSeq(r.ret, 2, Len(r.ret)) = todos
                 /\ \E k \in DOMAIN todos :
                       /\ todos[k].id = id
                       /\ IsCloneOf(r.ret[1], todos[k], now, t2)

\* duplicate has just cloned a completed record: the clone, not completed
\* and with the suffixed text, stands before the original.
C16_Witness ==
    /\ last.op = "duplicateTodo" /\ last.threw = ""
    /\ Len(todos) = 2
    /\ todos[1].id # todos[2].id
    /\ todos[2].completed /\ ~todos[1].completed
    /\ todos[1].text = todos[2].text \o CopySuffix

\* The entries of a payload that are objects with a non-empty text.
WithText(entries) ==
    Filter(entries, {i \in DOMAIN entries :
                        "text" \in DOMAIN entries[i] /\ entries[i].text # <<>>})

\* C17: import of a payload that does not parse or is not a sequence rejects
\* with the format error and changes neither the list nor the slot; of any
\* other payload it yields one record per entry that is an object with a
\* non-empty text, in payload order, with the entry's text, and with the
\* entry's id or, for an entry without one, an id not handed out before.
C17_ImportValidates ==
    (mode = "exchange" /\ nextId <= MaxIds) =>
        \A file \in {f \in FileInputs : f.kind # "unreadable"} :
            LET r == importTodos(file, nextId, now)
                kept == WithText(file.val)
            IN  IF file.kind # "array"
                THEN /\ r.threw = "Invalid JSON file or file format"
                     /\ Outcome(r).todos = todos
                     /\ Outcome(r).storage = storage
                ELSE /\ r.threw = ""
                     /\ Len(r.ret) = Len(kept)
                     /\ \A k \in DOMAIN kept :
                           /\ r.ret[k].text = kept[k].text
                           /\ IF "id" \in DOMAIN kept[k]
                              THEN r.ret[k].id = kept[k].id
                              ELSE r.ret[k].id >= nextId /\ r.ret[k].id # ForeignId

\* C18: importing the export of a list the mutation helpers can produce
\* yields as many records in the same order, each with the id, text,
\* category, priority, createdAt, updatedAt and dueDate of the exported one.
C18_ExportImportRoundTrip ==
    mode = "helpers" =>
        \A t \in now..MaxClock :
            LET r == importTodos(exportTodos(todos), nextId, t) IN
            /\ r.threw = ""
            /\ Len(r.ret) = Len(todos)
            /\ \A i \in DOMAIN todos :
                  \A f \in {"id", "text", "category", "priority",
                             "createdAt", "updatedAt", "dueDate"} :
                      r.ret[i][f] = todos[i][f]

\* The sum of the counts of a table.
RECURSIVE SumOf(_)
SumOf(counts) ==
    IF DOMAIN counts = {} THEN 0
    ELSE LET k == CHOOSE x \in DOMAIN counts : TRUE
         IN  counts[k] + SumOf([x \in (DOMAIN counts) \ {k} |-> counts[x]])

\* C19: statistics has total = completed + active = the length of the list,
\* overdue <= active, byCategory and byPriority each summing to total, and
\* completionRate the integer nearest to 100 * completed / total, within
\* 0..100, 0 for the empty list and 33 for 1 completed of 3; the provider's
\* stats have total = completed + active and overdue <= active.
C19_StatsConsistent ==
    mode = "views" =>
        LET s == getTodoStats(todos, now)
            p == ProviderStats(todos, now)
        IN  /\ s.total = Len(todos)
            /\ s.total = s.completed + s.active
            /\ s.completed = Cardinality({i \in DOMAIN todos : todos[i].completed})
            /\ s.overdue <= s.active
            /\ SumOf(s.byCategory) = s.total
            /\ SumOf(s.byPriority) = s.total
            /\ s.completionRate \in 0..100
            /\ s.total = 0 => s.completionRate = 0
            /\ s.total > 0 =>
                  /\ 2 * (s.completionRate * s.total - 100 * s.completed) <= s.total
                  /\ 2 * (100 * s.completed - s.completionRate * s.total) <= s.total
            /\ (s.total = 3 /\ s.completed = 1) => s.completionRate = 33
            /\ p.total = Len(todos)
            /\ p.total = p.completed + p.active
            /\ p.overdue <= p.active

\* The statistics have just been read of three records, one of them
\* completed and past its due date, another one overdue.
C19_Witness ==
    /\ last.op = "getTodoStats"
    /\ Len(todos) = 3
    /\ getTodoStats(todos, now).completed = 1
    /\ getTodoStats(todos, now).overdue = 1
    /\ \E i \in DOMAIN todos :
          todos[i].completed /\ todos[i].dueDate # NoDate /\ todos[i].dueDate < now

\* The ordinal the sort by priority goes by.
PriorityRank(priority) ==
    IF priority = "high" THEN 3
    ELSE IF priority = "medium" THEN 2
    ELSE IF priority = "low" THEN 1 ELSE 0

\* x's key is smaller than y's: texts and categories compared without
\* regard to case, an absent dueDate as time 0, the earliest.
KeyBelow(x, y, key) ==
    CASE key = "text" -> StringLess(toLowerCase(x.text), toLowerCase(y.text))
      [] key = "category" ->
            StringLess(toLowerCase(Chars(x.category)), toLowerCase(Chars(y.category)))
      [] key = "priority" -> PriorityRank(x.priority) < PriorityRank(y.priority)
      [] key = "completed" -> ~x.completed /\ y.completed
      [] key = "dueDate" ->
            IF x.dueDate = NoDate THEN y.dueDate # NoDate /\ y.dueDate > 0
            ELSE y.dueDate # NoDate /\ x.dueDate < y.dueDate
      [] key = "updatedAt" -> x.updatedAt < y.updatedAt
      [] key = "createdAt" -> x.createdAt < y.createdAt

\* x must stand before y in the requested direction.
MustPrecede(x, y, key, order) ==
    IF order = "asc" THEN KeyBelow(x, y, key) ELSE KeyBelow(y, x, key)

\* sorted is list rearranged by a one-to-one placement p, in the order of
\* the key, records of equal key in the order they had in list.
IsStableSortOf(sorted, list, key, order) ==
    /\ Len(sorted) = Len(list)
    /\ \E p \in [DOMAIN list -> DOMAIN list] :
          /\ \A k, l \in DOMAIN list : p[k] = p[l] => k = l
          /\ \A k \in DOMAIN list : sorted[k] = list[p[k]]
          /\ \A k, l \in DOMAIN list :
                k < l =>
                   /\ ~MustPrecede(sorted[l], sorted[k], key, order)
                   /\ ~MustPrecede(sorted[k], sorted[l], key, order) => p[k] < p[l]

Priorities(list) == [k \in DOMAIN list |-> list[k].priority]

\* C20: sort returns the records of the list, each once, ordered by the key
\* in the requested direction, records of equal key in their original
\* order; sorting the result again by the same key and order returns it
\* unchanged; priorities low, high, medium sorted by priority descending
\* come out high, medium, low.
C20_SortStable ==
    mode = "views" =>
        \A key \in SortByInputs, order \in OrderInputs :
            LET sorted == sortTodos(todos, key, order) IN
            /\ IsStableSortOf(sorted, todos, key, order)
            /\ sortTodos(sorted, key, order) = sorted
            /\ (key = "priority" /\ order = "desc"
                  /\ Priorities(todos) = <<"low", "high", "medium">>)
                  => Priorities(sorted) = <<"high", "medium", "low">>

\* The list low, high, medium has just been sorted: it now reads high,
\* medium, low.
C20_Witness ==
    /\ last.op = "sortTodos"
    /\ todos = <<TodoHigh, TodoMedium, TodoLow>>

\* The term occurs in s, letters compared without regard to case.
OccursIn(term, s) ==
    \E off \in 0..(Len(s) - Len(term)) :
        \A k \in 1..Len(term) :
            toLowerCase(<<s[off + k]>>) = toLowerCase(<<term[k]>>)

\* The term occurs in the text, the description, the category or a tag.
Matches(todo, term) ==
    \/ OccursIn(term, todo.text)
    \/ OccursIn(term, todo.description)
    \/ OccursIn(term, Chars(todo.category))
    \/ \E k \in DOMAIN todo.tags : OccursIn(term, todo.tags[k])

\* found is what a search for term in list is to return.
IsSearchOf(found, list, term) ==
    IF Blank(term) THEN found = list
    ELSE found = Filter(list, {i \in DOMAIN list : Matches(list[i], term)})

\* C21: a search returns the whole list for an empty or blank term, and
\* otherwise exactly the records, in the list's order, in which the term
\* occurs without regard to case in the text, the description, the category
\* or a tag; both searchTodos and the provider's search-query filtering do.
C21_SearchMatches ==
    mode = "views" =>
        \A term \in SearchInputs :
            /\ IsSearchOf(searchTodos(todos, term), todos, term)
            /\ IsSearchOf(ProviderFilteredTodos(todos, "all", term), todos, term)

\* What searchTodos alone does: the search of C21.
SearchTodosMatches ==
    mode = "views" =>
        \A term \in SearchInputs :
            IsSearchOf(searchTodos(todos, term), todos, term)

\* The records of list with the given completed value, in the list's order.
WithCompleted(list, completed) ==
    Filter(list, {i \in DOMAIN list : list[i].completed = completed})

\* shown is what the status filter is to show of list.
IsStatusFilterOf(shown, list) ==
    /\ shown["all"] = list
    /\ shown["active"] = WithCompleted(list, FALSE)
    /\ shown["completed"] = WithCompleted(list, TRUE)
    /\ Len(shown["active"]) + Len(shown["completed"]) = Len(list)

\* C22: with "all" the status filter shows the list as it is, with "active"
\* the records that are not completed and with "completed" the completed
\* ones, each in the list's order, the two dividing the list between them;
\* filterTodos, the provider's filteredTodos and the TodoList component do so
\* for the same filter value.
C22_StatusFilterPartitions ==
    mode = "views" =>
        /\ IsStatusFilterOf(
               [f \in {"all", "active", "completed"} |-> filterTodos(todos, f)],
               todos)
        /\ IsStatusFilterOf(
               [f \in {"all", "active", "completed"} |->
                   ProviderFilteredTodos(todos, f, <<>>)], todos)
        /\ IsStatusFilterOf(
               [f \in {"all", "active", "completed"} |->
                   TodoListFilteredTodos(todos, f, now)], todos)

\* What filterTodos and the provider do: the status filter of C22.
StatusFilterOutsideTodoList ==
    mode = "views" =>
        /\ IsStatusFilterOf(
               [f \in {"all", "active", "completed"} |-> filterTodos(todos, f)],
               todos)
        /\ IsStatusFilterOf(
               [f \in {"all", "active", "completed"} |->
                   ProviderFilteredTodos(todos, f, <<>>)], todos)

\* The records of list the removal condition does not hold of, as they are
\* and in the list's order.
Remaining(list, Removed(_)) == SelectSeq(list, LAMBDA todo : ~Removed(todo))

\* The orders in which the ids can be deleted one after another.
Orderings(ids) ==
    {order \in [1..Cardinality(ids) -> ids] :
        \A i, j \in DOMAIN order : order[i] = order[j] => i = j}

RECURSIVE DeleteEach(_, _)
DeleteEach(list, order) ==
    IF order = <<>> THEN list
    ELSE DeleteEach(deleteTodo(list, Head(order)).ret, Tail(order))

\* C23: delete, deleteMany and clearCompleted, of the helper module and of
\* the provider, return the records that do not match the removal condition,
\* as they are and in the list's order; on a list with distinct ids deleting
\* a present id shortens the list by one, deleteMany equals deleting the ids
\* one after another in any order, and clearCompleted twice equals once.
C23_RemovalKeepsTheRest ==
    mode \in {"helpers", "provider"} =>
        /\ \A id \in IdInputs :
              /\ deleteTodo(todos, id).ret
                    = Remaining(todos, LAMBDA todo : todo.id = id)
              /\ ProviderDeleteTodo(todos, id)
                    = Remaining(todos, LAMBDA todo : todo.id = id)
              /\ (DistinctIds(todos) /\ id \in Ids(todos)) =>
                    Len(deleteTodo(todos, id).ret) = Len(todos) - 1
        /\ \A ids \in SUBSET IdInputs :
              /\ deleteTodos(todos, ids).ret
                    = Remaining(todos, LAMBDA todo : todo.id \in ids)
              /\ DistinctIds(todos) =>
                    \A order \in Orderings(ids) :
                        deleteTodos(todos, ids).ret = DeleteEach(todos, order)
        /\ clearCompleted(todos).ret
              = Remaining(todos, LAMBDA todo : todo.completed)
        /\ ProviderClearCompleted(todos)
              = Remaining(todos, LAMBDA todo : todo.completed)
        /\ clearCompleted(clearCompleted(todos).ret).ret
              = clearCompleted(todos).ret
        /\ ProviderClearCompleted(ProviderClearCompleted(todos))
              = ProviderClearCompleted(todos)

\* deleteMany has just run and written the list it returned: one completed
\* record, left after both ids were handed out.
C23_Witness ==
    /\ mode = "helpers"
    /\ last.op = "deleteTodos"
    /\ nextId > MaxIds
    /\ Len(todos) = 1
    /\ todos[1].completed
    /\ storage = Stringified(todos)

\* The updater toggleTodo(id) queues when the rendered list is rendered.
ToggleUpdater(rendered, id) ==
    [kind |-> "update", id |-> id, updates |-> ProviderToggleUpdates(rendered, id)]

\* The completed value of the record with the id; FALSE without one.
CompletedOf(list, id) == \E i \in DOMAIN list : list[i].id = id /\ list[i].completed

\* C24: in the provider, toggleTodo and markAllCompleted decide the new
\* completed value from the list their updater is applied to: the value a
\* queued toggle carries is the opposite of the record's value in the list
\* the updaters queued before it produce, the flag a queued markAllCompleted
\* carries says whether that list has an incomplete record, and two toggles
\* of one id issued without a render between them leave its completed value
\* as it was.
C24_DecidedOnAppliedList ==
    mode = "provider" =>
        /\ queue # <<>> =>
              LET u == queue[Len(queue)]
                  applied == RunQueue(SubSeq(queue, 1, Len(queue) - 1), todos, now)
              IN  /\ (last.op = "provider.toggleTodo" /\ u.id \in Ids(applied)) =>
                        u.updates.completed = ~CompletedOf(applied, u.id)
                  /\ last.op = "provider.markAllCompleted" =>
                        u.flag = HasIncomplete(applied)
        /\ DistinctIds(todos) =>
              \A id \in Ids(todos) :
                  CompletedOf(RunQueue(<<ToggleUpdater(todos, id),
                                         ToggleUpdater(todos, id)>>, todos, now), id)
                      = CompletedOf(todos, id)

\* With a render between them two toggles do restore the completed value.
ToggleRenderToggleRestores ==
    (mode = "provider" /\ DistinctIds(todos)) =>
        \A id \in Ids(todos) :
            LET once == RunQueue(<<ToggleUpdater(todos, id)>>, todos, now)
                twice == RunQueue(<<ToggleUpdater(once, id)>>, once, now)
            IN  CompletedOf(twice, id) = CompletedOf(todos, id)

\* The slot holds a non-empty array of records with every field.
WellFormed(slot) ==
    /\ slot.kind = "array"
    /\ slot.val # <<>>
    /\ \A i \in DOMAIN slot.val :
          /\ DOMAIN slot.val[i] = DOMAIN Defaults(0, 0)
          /\ slot.val[i].createdAt # NoDate
          /\ slot.val[i].updatedAt # NoDate

\* The save effect is about to run for the first time with isLoading false:
\* only the render of the load effect's two updates leaves no handler's
\* updater applied.
FirstWritePending ==
    ~isLoading /\ effects = <<"save">> /\ unsaved.n = 0

\* C25: in the provider the slot is not written while the stored todos are
\* not loaded; the first write, of a startup in which no handler ran, writes
\* the list load returns for the slot's content, so that a non-empty
\* well-formed snapshot is in the slot with the same records afterwards.
C25_FirstWriteAfterLoad ==
    mode = "provider" =>
        /\ isLoading => (todos = <<>> /\ storage \in ProviderSlots)
        /\ FirstWritePending =>
              /\ storage \in ProviderSlots
              /\ \E t \in 0..now : todos = loadTodos(storage, 1, t)
              /\ WellFormed(storage) => Stringified(todos) = storage
        /\ (~isLoading /\ last.op = "saveEffect" /\ storageOk) =>
              storage = Stringified(todos)

\* The save effect has just written, the slot held a well-formed snapshot
\* and holds it still, and no id was handed out yet.
C25_Witness ==
    /\ mode = "provider"
    /\ ~isLoading
    /\ last.op = "saveEffect" /\ last.writes = 1
    /\ nextId = 1
    /\ storageOk
    /\ storage = [kind |-> "array", val |-> <<StoredFull>>]
    /\ todos = <<StoredFull>>

===========================================================================
